---- MODULE Spec2Model ----
(***************************************************************************)
(* The wire-format codec of xrpl-rs (src/types/mod.rs): the serde          *)
(* Serialize/Deserialize implementations of Drops, CurrencyAmount,         *)
(* LedgerEntry, RequestId, Response<T> and the auxiliary records, as       *)
(* operators over JSON values, driven by a caller that invokes one         *)
(* encode or decode at a time.                                             *)
(*                                                                         *)
(* Text (JSON strings, object keys, identifiers) is a sequence of           *)
(* one-character strings; objects are functions from keys to JSON values   *)
(* (no duplicate keys, no key order); integers are sign and magnitude,     *)
(* the magnitude an unsigned 64-bit number held as four 16-bit limbs,      *)
(* least significant first.  Decode failures carry no message.  A value    *)
(* buffered by serde (inside an untagged or internally tagged enum)        *)
(* decodes as the same value read from the input does.                     *)
(***************************************************************************)
EXTENDS Integers, Sequences, FiniteSets, TLC

VARIABLES call, ty, value, wire, result

vars == <<call, ty, value, wire, result>>

-----------------------------------------------------------------------------
(* Outcomes: std::result::Result and Option.                               *)

Ok(v) == [ok |-> TRUE, v |-> v]
Err == [ok |-> FALSE]
Some(v) == [some |-> TRUE, v |-> v]
None == [some |-> FALSE]

-----------------------------------------------------------------------------
(* u64 arithmetic on four 16-bit limbs.                                    *)

LimbBase == 2 ^ 16

U64(n) == <<n, 0, 0, 0>>

U64Max == <<LimbBase - 1, LimbBase - 1, LimbBase - 1, LimbBase - 1>>

\* u64::checked_mul by a small factor: None on overflow.
checked_mul(a, m) ==
    LET p1 == a[1] * m
        p2 == a[2] * m + (p1 \div LimbBase)
        p3 == a[3] * m + (p2 \div LimbBase)
        p4 == a[4] * m + (p3 \div LimbBase)
    IN  IF p4 \div LimbBase > 0
        THEN None
        ELSE Some(<<p1 % LimbBase, p2 % LimbBase, p3 % LimbBase, p4 % LimbBase>>)

\* u64::checked_add of a small addend: None on overflow.
checked_add(a, d) ==
    LET s1 == a[1] + d
        s2 == a[2] + (s1 \div LimbBase)
        s3 == a[3] + (s2 \div LimbBase)
        s4 == a[4] + (s3 \div LimbBase)
    IN  IF s4 \div LimbBase > 0
        THEN None
        ELSE Some(<<s1 % LimbBase, s2 % LimbBase, s3 % LimbBase, s4 % LimbBase>>)

\* Quotient and remainder of a u64 by 10.
DivMod10(a) ==
    LET r4 == a[4]
        r3 == (r4 % 10) * LimbBase + a[3]
        r2 == (r3 % 10) * LimbBase + a[2]
        r1 == (r2 % 10) * LimbBase + a[1]
    IN  [q |-> <<r1 \div 10, r2 \div 10, r3 \div 10, r4 \div 10>>, r |-> r1 % 10]

-----------------------------------------------------------------------------
(* Decimal text of a u64, and its parse.                                   *)

DigitChars == <<"0", "1", "2", "3", "4", "5", "6", "7", "8", "9">>

IsDigit(c) == \E i \in DOMAIN DigitChars : DigitChars[i] = c

\* char::to_digit(10)
to_digit(c) == (CHOOSE i \in DOMAIN DigitChars : DigitChars[i] = c) - 1

RECURSIVE FmtDigits(_)
FmtDigits(a) ==
    IF a = U64(0)
    THEN <<>>
    ELSE LET d == DivMod10(a) IN FmtDigits(d.q) \o <<DigitChars[d.r + 1]>>

\* format!("{}", n) for n: u64
format(a) == IF a = U64(0) THEN <<"0">> ELSE FmtDigits(a)

\* The digit loop of u64::from_str: each step multiplies by ten and adds
\* the digit, both checked; a character that is no digit is an error.
RECURSIVE ParseDigits(_, _, _)
ParseDigits(s, i, acc) ==
    IF i > Len(s)
    THEN Ok(acc)
    ELSE IF ~IsDigit(s[i])
    THEN Err
    ELSE LET m == checked_mul(acc, 10)
         IN  IF ~m.some
             THEN Err
             ELSE LET n == checked_add(m.v, to_digit(s[i]))
                  IN  IF ~n.some THEN Err ELSE ParseDigits(s, i + 1, n.v)

\* str::parse::<u64>(): empty text, a lone sign, a minus sign, a character
\* that is no digit and a value above u64::MAX are errors; one leading
\* plus sign is accepted.
parse(s) ==
    IF s = <<>>
    THEN Err
    ELSE IF s = <<"+">> \/ s = <<"-">>
    THEN Err
    ELSE IF s[1] = "+"
    THEN ParseDigits(s, 2, U64(0))
    ELSE ParseDigits(s, 1, U64(0))

-----------------------------------------------------------------------------
(* JSON values.                                                            *)

JNull == [k |-> "null"]
JBool(b) == [k |-> "bool", b |-> b]
JNum(neg, mag) == [k |-> "num", neg |-> neg, mag |-> mag]
JFloat(txt) == [k |-> "float", f |-> txt]
JStr(s) == [k |-> "str", s |-> s]
JArr(a) == [k |-> "arr", a |-> a]
JObj(o) == [k |-> "obj", o |-> o]

EmptyObject == <<>>

\* The object o without key key.
Without(o, key) == [x \in (DOMAIN o) \ {key} |-> o[x]]

-----------------------------------------------------------------------------
(* The identifiers of the source: field names, variant names, and the      *)
(* names given to serde attributes.                                        *)

f_account == <<"a", "c", "c", "o", "u", "n", "t">>
f_balance == <<"b", "a", "l", "a", "n", "c", "e">>
f_flags == <<"f", "l", "a", "g", "s">>
f_owner_count == <<"o", "w", "n", "e", "r", "_", "c", "o", "u", "n", "t">>
f_previous_txn_id == <<"p", "r", "e", "v", "i", "o", "u", "s", "_", "t", "x", "n", "_", "i", "d">>
f_previous_txn_lgr_seq == <<"p", "r", "e", "v", "i", "o", "u", "s", "_", "t", "x", "n", "_", "l", "g", "r", "_", "s", "e", "q">>
f_sequence == <<"s", "e", "q", "u", "e", "n", "c", "e">>
f_account_txn_id == <<"a", "c", "c", "o", "u", "n", "t", "_", "t", "x", "n", "_", "i", "d">>
f_domain == <<"d", "o", "m", "a", "i", "n">>
f_email_hash == <<"e", "m", "a", "i", "l", "_", "h", "a", "s", "h">>
f_message_key == <<"m", "e", "s", "s", "a", "g", "e", "_", "k", "e", "y">>
f_regular_key == <<"r", "e", "g", "u", "l", "a", "r", "_", "k", "e", "y">>
f_ticket_count == <<"t", "i", "c", "k", "e", "t", "_", "c", "o", "u", "n", "t">>
f_tick_size == <<"t", "i", "c", "k", "_", "s", "i", "z", "e">>
f_transfer_rate == <<"t", "r", "a", "n", "s", "f", "e", "r", "_", "r", "a", "t", "e">>
f_destination == <<"d", "e", "s", "t", "i", "n", "a", "t", "i", "o", "n">>
f_value == <<"v", "a", "l", "u", "e">>
f_currency == <<"c", "u", "r", "r", "e", "n", "c", "y">>
f_issuer == <<"i", "s", "s", "u", "e", "r">>
f_id == <<"i", "d">>
f_status == <<"s", "t", "a", "t", "u", "s">>
f_type == <<"t", "y", "p", "e">>
f_result == <<"r", "e", "s", "u", "l", "t">>
f_warning == <<"w", "a", "r", "n", "i", "n", "g">>
f_warnings == <<"w", "a", "r", "n", "i", "n", "g", "s">>
f_forwarded == <<"f", "o", "r", "w", "a", "r", "d", "e", "d">>
f_tx_json == <<"t", "x", "_", "j", "s", "o", "n">>
f_ledger_index == <<"l", "e", "d", "g", "e", "r", "_", "i", "n", "d", "e", "x">>
f_ledger_hash == <<"l", "e", "d", "g", "e", "r", "_", "h", "a", "s", "h">>
f_ledger_current_index == <<"l", "e", "d", "g", "e", "r", "_", "c", "u", "r", "r", "e", "n", "t", "_", "i", "n", "d", "e", "x">>
f_validated == <<"v", "a", "l", "i", "d", "a", "t", "e", "d">>
f_limit == <<"l", "i", "m", "i", "t">>
f_marker == <<"m", "a", "r", "k", "e", "r">>
f_error == <<"e", "r", "r", "o", "r">>

n_Unknown == <<"U", "n", "k", "n", "o", "w", "n">>
n_AccountRoot == <<"A", "c", "c", "o", "u", "n", "t", "R", "o", "o", "t">>
n_Check == <<"C", "h", "e", "c", "k">>
n_Number == <<"N", "u", "m", "b", "e", "r">>
n_String == <<"S", "t", "r", "i", "n", "g">>
n_XRP == <<"X", "R", "P">>
n_IssuedCurrency == <<"I", "s", "s", "u", "e", "d", "C", "u", "r", "r", "e", "n", "c", "y">>
n_Ok == <<"O", "k">>
n_Error == <<"E", "r", "r", "o", "r">>
n_LedgerEntryType == <<"L", "e", "d", "g", "e", "r", "E", "n", "t", "r", "y", "T", "y", "p", "e">>
n_PreviousTxnID == <<"P", "r", "e", "v", "i", "o", "u", "s", "T", "x", "n", "I", "D">>
n_SomeFutureType == <<"S", "o", "m", "e", "F", "u", "t", "u", "r", "e", "T", "y", "p", "e">>
n_PascalCase == <<"P", "a", "s", "c", "a", "l", "C", "a", "s", "e">>

-----------------------------------------------------------------------------
(* Field renaming.                                                         *)

LowerChars == <<"a", "b", "c", "d", "e", "f", "g", "h", "i", "j", "k", "l", "m",
                "n", "o", "p", "q", "r", "s", "t", "u", "v", "w", "x", "y", "z">>
UpperChars == <<"A", "B", "C", "D", "E", "F", "G", "H", "I", "J", "K", "L", "M",
                "N", "O", "P", "Q", "R", "S", "T", "U", "V", "W", "X", "Y", "Z">>

\* char::to_ascii_uppercase
to_ascii_uppercase(c) ==
    IF \E i \in DOMAIN LowerChars : LowerChars[i] = c
    THEN UpperChars[CHOOSE i \in DOMAIN LowerChars : LowerChars[i] = c]
    ELSE c

\* rename_all = "PascalCase" of a snake_case field name: an underscore is
\* dropped and the character after it, like the first, is upper-cased.
RECURSIVE PascalFrom(_, _, _)
PascalFrom(name, i, capitalize) ==
    IF i > Len(name)
    THEN <<>>
    ELSE IF name[i] = "_"
    THEN PascalFrom(name, i + 1, TRUE)
    ELSE IF capitalize
    THEN <<to_ascii_uppercase(name[i])>> \o PascalFrom(name, i + 1, FALSE)
    ELSE <<name[i]>> \o PascalFrom(name, i + 1, FALSE)

PascalCase(name) == PascalFrom(name, 1, TRUE)

NoRename == <<>>

\* A field of a struct, and one carrying #[serde(rename = "...")].
Field(ident, fty) == [ident |-> ident, rename |-> NoRename, ty |-> fty]
FieldRenamed(ident, rename, fty) == [ident |-> ident, rename |-> rename, ty |-> fty]

\* The wire name of a field: its rename attribute, else the struct's
\* rename_all rule applied to the identifier, else the identifier.
WireName(rename_all, f) ==
    IF f.rename # NoRename
    THEN f.rename
    ELSE IF rename_all = n_PascalCase
    THEN PascalCase(f.ident)
    ELSE f.ident

-----------------------------------------------------------------------------
(* Type descriptors.                                                       *)

String == [t |-> "String"]
bool == [t |-> "bool"]
Uint(bits) == [t |-> "uint", bits |-> bits]
i64 == [t |-> "i64"]
Value == [t |-> "Value"]
Option(T) == [t |-> "option", of |-> T]
Vec(T) == [t |-> "vec", of |-> T]

\* #[derive(Serialize, Deserialize)] struct, with its rename_all rule.
Struct(rename_all, fields) ==
    [t |-> "struct",
     fields |-> [i \in DOMAIN fields |->
                    [ident |-> fields[i].ident,
                     wire |-> WireName(rename_all, fields[i]),
                     ty |-> fields[i].ty]]]

UnitVariant(name) == [name |-> name, unit |-> TRUE]
NewtypeVariant(name, T) == [name |-> name, unit |-> FALSE, ty |-> T]

\* enum representations: #[serde(untagged)], #[serde(tag = "...")], and the
\* default, externally tagged one.
Untagged(variants) == [t |-> "untagged", variants |-> variants]
InternallyTagged(tag, variants) == [t |-> "internal", tag |-> tag, variants |-> variants]
ExternallyTagged(variants) == [t |-> "external", variants |-> variants]

\* In-process enum values: the variant's name, and what it holds.
Unit(name) == <<name>>
Newtype(name, v) == <<name, v>>
VariantOf(e) == e[1]
Payload(e) == e[2]

-----------------------------------------------------------------------------
(* Drops: the hand-written Serialize and Deserialize.                      *)

Drops == [t |-> "Drops"]

\* The tuple struct Drops(u64).
DropsOf(n) == [drops |-> n]

\* impl TryFrom<&str> for Drops
try_from(s) ==
    LET n == parse(s)
    IN  IF n.ok THEN Ok(DropsOf(n.v)) ELSE Err

\* DropsVisitor::visit_str: the parse error becomes a custom decode error.
visit_str(s) ==
    LET d == try_from(s)
    IN  IF d.ok THEN Ok(d.v) ELSE Err

\* impl Deserialize for Drops: deserialize_str hands a JSON string to the
\* visitor; any other JSON value is an invalid type, the visitor having no
\* other visit method.
DropsDeserialize(j) ==
    IF j.k = "str" THEN visit_str(j.s) ELSE Err

\* Mutant of DropsSerialize: the number is written as a JSON number.
DropsSerializeAsNumber(d) == JNum(FALSE, d.drops)

\* impl Serialize for Drops: serialize_str of the formatted number.
DropsSerialize(d) == JStr(format(d.drops))

-----------------------------------------------------------------------------
(* Deserialize, by type.                                                   *)

\* Whether an unsigned magnitude fits an unsigned integer of bits bits.
FitsUint(mag, bits) ==
    CASE bits = 8 -> mag[1] < 2 ^ 8 /\ mag[2] = 0 /\ mag[3] = 0 /\ mag[4] = 0
      [] bits = 16 -> mag[2] = 0 /\ mag[3] = 0 /\ mag[4] = 0
      [] bits = 32 -> mag[3] = 0 /\ mag[4] = 0
      [] OTHER -> TRUE

\* Whether a JSON integer fits i64.
FitsI64(neg, mag) ==
    \/ mag[4] < 2 ^ 15
    \/ neg /\ mag = <<0, 0, 0, 2 ^ 15>>

RECURSIVE Deserialize(_, _)
RECURSIVE DeStructMap(_, _)
RECURSIVE DeStructSeq(_, _)
RECURSIVE DeVec(_, _)
RECURSIVE DeUntagged(_, _, _)
RECURSIVE DeVariant(_, _)
RECURSIVE DeInternal(_, _)
RECURSIVE DeExternal(_, _)

\* The derived visit_map of a struct: a field is read from its wire name,
\* other keys are ignored; a missing field is None for an Option and an
\* error for any other type.
DeStructMap(fields, o) ==
    LET r == [i \in DOMAIN fields |->
                IF fields[i].wire \in DOMAIN o
                THEN Deserialize(fields[i].ty, o[fields[i].wire])
                ELSE IF fields[i].ty.t = "option" THEN Ok(None) ELSE Err]
    IN  IF \A i \in DOMAIN fields : r[i].ok
        THEN Ok([id \in {fields[i].ident : i \in DOMAIN fields} |->
                    r[CHOOSE i \in DOMAIN fields : fields[i].ident = id].v])
        ELSE Err

\* The derived visit_seq of a struct: the fields in declaration order, one
\* element each, none missing and none left over.
DeStructSeq(fields, a) ==
    IF Len(a) # Len(fields)
    THEN Err
    ELSE LET r == [i \in DOMAIN fields |-> Deserialize(fields[i].ty, a[i])]
         IN  IF \A i \in DOMAIN fields : r[i].ok
             THEN Ok([id \in {fields[i].ident : i \in DOMAIN fields} |->
                         r[CHOOSE i \in DOMAIN fields : fields[i].ident = id].v])
             ELSE Err

DeVec(T, a) ==
    LET r == [i \in DOMAIN a |-> Deserialize(T, a[i])]
    IN  IF \A i \in DOMAIN a : r[i].ok
        THEN Ok([i \in DOMAIN a |-> r[i].v])
        ELSE Err

\* Mutant of DeUntagged: only variant i is tried, with no fallback.
DeUntaggedFirstOnly(variants, i, j) ==
    IF i > Len(variants)
    THEN Err
    ELSE LET r == Deserialize(variants[i].ty, j)
         IN  IF r.ok THEN Ok(Newtype(variants[i].name, r.v)) ELSE Err

\* #[serde(untagged)]: the variants are tried in declaration order from
\* variant i on, and the first that decodes is the value.
DeUntagged(variants, i, j) ==
    IF i > Len(variants)
    THEN Err
    ELSE LET r == Deserialize(variants[i].ty, j)
         IN  IF r.ok
             THEN Ok(Newtype(variants[i].name, r.v))
             ELSE DeUntagged(variants, i + 1, j)

\* The chosen variant of a tagged enum, from the rest of the value: a unit
\* variant takes an object or an array inside an internally tagged enum and
\* null as the value of an externally tagged one.
DeVariant(variant, content) ==
    IF variant.unit
    THEN IF content.k \in {"obj", "arr", "null"} THEN Ok(Unit(variant.name)) ELSE Err
    ELSE LET r == Deserialize(variant.ty, content)
         IN  IF r.ok THEN Ok(Newtype(variant.name, r.v)) ELSE Err

\* #[serde(tag = "...")]: the tag is a key of the object (or the first
\* element of an array) and must be a string naming a variant; the
\* variant is decoded from what is left.
DeInternal(T, j) ==
    LET named(s) == {i \in DOMAIN T.variants : T.variants[i].name = s}
        pick(tagv, content) ==
            IF tagv.k = "str" /\ named(tagv.s) # {}
            THEN DeVariant(T.variants[CHOOSE i \in named(tagv.s) : TRUE], content)
            ELSE Err
    IN  CASE j.k = "obj" ->
               IF T.tag \in DOMAIN j.o
               THEN pick(j.o[T.tag], JObj(Without(j.o, T.tag)))
               ELSE Err
          [] j.k = "arr" ->
               IF Len(j.a) > 0
               THEN pick(j.a[1], JArr(Tail(j.a)))
               ELSE Err
          [] OTHER -> Err

\* The default enum representation: an object with one key, the variant
\* name, or for a unit variant its name as a string.
DeExternal(T, j) ==
    LET named(s) == {i \in DOMAIN T.variants : T.variants[i].name = s}
    IN  CASE j.k = "obj" ->
               IF Cardinality(DOMAIN j.o) = 1
               THEN LET key == CHOOSE x \in DOMAIN j.o : TRUE
                    IN  IF named(key) # {}
                        THEN DeVariant(T.variants[CHOOSE i \in named(key) : TRUE],
                                       j.o[key])
                        ELSE Err
               ELSE Err
          [] j.k = "str" ->
               IF named(j.s) # {} /\ T.variants[CHOOSE i \in named(j.s) : TRUE].unit
               THEN Ok(Unit(j.s))
               ELSE Err
          [] OTHER -> Err

Deserialize(T, j) ==
    CASE T.t = "String" -> IF j.k = "str" THEN Ok(j.s) ELSE Err
      [] T.t = "bool" -> IF j.k = "bool" THEN Ok(j.b) ELSE Err
      [] T.t = "uint" ->
           IF j.k = "num" /\ ~j.neg /\ FitsUint(j.mag, T.bits) THEN Ok(j.mag) ELSE Err
      [] T.t = "i64" ->
           IF j.k = "num" /\ FitsI64(j.neg, j.mag)
           THEN Ok([neg |-> j.neg, mag |-> j.mag])
           ELSE Err
      [] T.t = "Value" -> Ok(j)
      [] T.t = "option" ->
           IF j.k = "null"
           THEN Ok(None)
           ELSE LET r == Deserialize(T.of, j) IN IF r.ok THEN Ok(Some(r.v)) ELSE Err
      [] T.t = "vec" -> IF j.k = "arr" THEN DeVec(T.of, j.a) ELSE Err
      [] T.t = "struct" ->
           CASE j.k = "obj" -> DeStructMap(T.fields, j.o)
             [] j.k = "arr" -> DeStructSeq(T.fields, j.a)
             [] OTHER -> Err
      [] T.t = "Drops" -> DropsDeserialize(j)
      [] T.t = "untagged" -> DeUntagged(T.variants, 1, j)
      [] T.t = "internal" -> DeInternal(T, j)
      [] T.t = "external" -> DeExternal(T, j)

-----------------------------------------------------------------------------
(* Serialize, by type.                                                     *)

RECURSIVE Serialize(_, _)

\* The derived Serialize of a struct: every field under its wire name, a
\* None as null.
SerStruct(fields, v) ==
    [w \in {fields[i].wire : i \in DOMAIN fields} |->
        LET i == CHOOSE x \in DOMAIN fields : fields[x].wire = w
        IN  Serialize(fields[i].ty, v[fields[i].ident])]

Serialize(T, v) ==
    CASE T.t = "String" -> JStr(v)
      [] T.t = "bool" -> JBool(v)
      [] T.t = "uint" -> JNum(FALSE, v)
      [] T.t = "i64" -> JNum(v.neg, v.mag)
      [] T.t = "Value" -> v
      [] T.t = "option" -> IF v.some THEN Serialize(T.of, v.v) ELSE JNull
      [] T.t = "vec" -> JArr([i \in DOMAIN v |-> Serialize(T.of, v[i])])
      [] T.t = "struct" -> JObj(SerStruct(T.fields, v))
      [] T.t = "Drops" -> DropsSerialize(v)
      [] T.t = "untagged" ->
           LET i == CHOOSE x \in DOMAIN T.variants : T.variants[x].name = VariantOf(v)
           IN  Serialize(T.variants[i].ty, Payload(v))
      [] T.t = "internal" ->
           LET i == CHOOSE x \in DOMAIN T.variants : T.variants[x].name = VariantOf(v)
           IN  IF T.variants[i].unit
               THEN JObj(T.tag :> JStr(VariantOf(v)))
               ELSE JObj((T.tag :> JStr(VariantOf(v)))
                         @@ Serialize(T.variants[i].ty, Payload(v)).o)
      [] T.t = "external" ->
           LET i == CHOOSE x \in DOMAIN T.variants : T.variants[x].name = VariantOf(v)
           IN  IF T.variants[i].unit
               THEN JStr(VariantOf(v))
               ELSE JObj(VariantOf(v) :> Serialize(T.variants[i].ty, Payload(v)))

-----------------------------------------------------------------------------
(* The types of src/types/mod.rs.                                          *)

RequestId ==
    ExternallyTagged(<<NewtypeVariant(n_Number, Uint(64)),
                       NewtypeVariant(n_String, String)>>)

LedgerInfo ==
    Struct(NoRename,
           <<Field(f_ledger_hash, Option(String)),
             Field(f_ledger_index, Option(i64)),
             Field(f_ledger_current_index, Option(i64)),
             Field(f_validated, Option(bool))>>)

PaginationInfo ==
    Struct(NoRename,
           <<Field(f_limit, Option(i64)),
             Field(f_marker, Option(Value))>>)

\* Mutant of Result: the Error arm is declared, and so tried, first.
ResultErrorFirst(T) ==
    Untagged(<<NewtypeVariant(n_Error, Value), NewtypeVariant(n_Ok, T)>>)

\* enum Result<T>: Ok(T) is tried first, then Error(Value), which any JSON
\* value decodes as.
Result(T) ==
    Untagged(<<NewtypeVariant(n_Ok, T), NewtypeVariant(n_Error, Value)>>)

Response(T) ==
    Struct(NoRename,
           <<Field(f_id, Option(RequestId)),
             Field(f_status, Option(String)),
             Field(f_type, Option(String)),
             Field(f_result, Result(T)),
             Field(f_warning, Option(String)),
             Field(f_warnings, Option(Vec(Value))),
             Field(f_forwarded, Option(bool))>>)

IssuedCurrencyAmount ==
    Struct(NoRename,
           <<Field(f_value, String),
             Field(f_currency, String),
             Field(f_issuer, String)>>)

CurrencyAmount ==
    Untagged(<<NewtypeVariant(n_XRP, Drops),
               NewtypeVariant(n_IssuedCurrency, IssuedCurrencyAmount)>>)

TransactionEntryResponse ==
    Struct(NoRename,
           <<Field(f_tx_json, Option(Value)),
             Field(f_ledger_index, Option(Uint(64))),
             Field(f_ledger_hash, Option(String))>>)

AccountRoot ==
    Struct(n_PascalCase,
           <<Field(f_account, String),
             Field(f_balance, CurrencyAmount),
             Field(f_flags, Uint(32)),
             Field(f_owner_count, Uint(32)),
             FieldRenamed(f_previous_txn_id, n_PreviousTxnID, String),
             Field(f_previous_txn_lgr_seq, Uint(32)),
             Field(f_sequence, Uint(32)),
             Field(f_account_txn_id, Option(String)),
             Field(f_domain, Option(String)),
             Field(f_email_hash, Option(String)),
             Field(f_message_key, Option(String)),
             Field(f_regular_key, Option(String)),
             Field(f_ticket_count, Option(Uint(32))),
             Field(f_tick_size, Option(Uint(8))),
             Field(f_transfer_rate, Option(Uint(32)))>>)

Check ==
    Struct(n_PascalCase,
           <<Field(f_account, String),
             Field(f_destination, String),
             Field(f_flags, Uint(32))>>)

LedgerEntry ==
    InternallyTagged(n_LedgerEntryType,
                     <<UnitVariant(n_Unknown),
                       NewtypeVariant(n_AccountRoot, AccountRoot),
                       NewtypeVariant(n_Check, Check)>>)

-----------------------------------------------------------------------------
(* Bounds of the inputs.                                                   *)

\* The longest text drawn over TextAlphabet.
MaxLen == 3

\* The longest JSON array drawn.
MaxArr == 3

\* The most optional AccountRoot keys present in a drawn ledger object.
MaxOptional == 3

-----------------------------------------------------------------------------
(* Inputs.                                                                 *)

TextAlphabet == {"0", "1", "9", "+", "-", ".", "a"}

Texts == UNION {[1..n -> TextAlphabet] : n \in 0..MaxLen}

\* Texts around u64::MAX: it, its successor, it with a digit more, the
\* largest text of its length, and it with a sign or zeros in front.
BoundaryTexts ==
    LET max == format(U64Max)
    IN  {max,
         SubSeq(max, 1, Len(max) - 1) \o <<"6">>,
         SubSeq(max, 1, Len(max) - 1) \o <<"9">>,
         max \o <<"0">>,
         <<"1", "9">> \o SubSeq(max, 3, Len(max)),
         [i \in 1..Len(max) |-> "9"],
         <<"+">> \o max,
         <<"-">> \o max,
         <<"0", "0">> \o max,
         SubSeq(max, 1, Len(max) - 1),
         <<"1", "0", "0">>, <<"5", "0", "0">>,
         <<"1", "0", "0", ".", "0">>, <<"a", "b", "c">>}

t_10 == <<"1", "0">>
t_500 == <<"5", "0", "0">>
t_abc == <<"a", "b", "c">>
t_USD == <<"U", "S", "D">>
t_rX == <<"r", "X">>
t_ABCD == <<"A", "B", "C", "D">>
t_actNotFound == <<"a", "c", "t", "N", "o", "t", "F", "o", "u", "n", "d">>
t_success == <<"s", "u", "c", "c", "e", "s", "s">>
n_AccountTxnId == <<"A", "c", "c", "o", "u", "n", "t", "T", "x", "n", "I", "d">>
n_Extra == <<"E", "x", "t", "r", "a">>

\* The wire names the protocol documents for the fields of AccountRoot.
w_Destination == <<"D", "e", "s", "t", "i", "n", "a", "t", "i", "o", "n">>
w_Account == <<"A", "c", "c", "o", "u", "n", "t">>
w_Balance == <<"B", "a", "l", "a", "n", "c", "e">>
w_Flags == <<"F", "l", "a", "g", "s">>
w_OwnerCount == <<"O", "w", "n", "e", "r", "C", "o", "u", "n", "t">>
w_PreviousTxnID == <<"P", "r", "e", "v", "i", "o", "u", "s", "T", "x", "n", "I", "D">>
w_PreviousTxnLgrSeq == <<"P", "r", "e", "v", "i", "o", "u", "s", "T", "x", "n", "L", "g", "r", "S", "e", "q">>
w_Sequence == <<"S", "e", "q", "u", "e", "n", "c", "e">>
w_AccountTxnID == <<"A", "c", "c", "o", "u", "n", "t", "T", "x", "n", "I", "D">>
w_Domain == <<"D", "o", "m", "a", "i", "n">>
w_EmailHash == <<"E", "m", "a", "i", "l", "H", "a", "s", "h">>
w_MessageKey == <<"M", "e", "s", "s", "a", "g", "e", "K", "e", "y">>
w_RegularKey == <<"R", "e", "g", "u", "l", "a", "r", "K", "e", "y">>
w_TicketCount == <<"T", "i", "c", "k", "e", "t", "C", "o", "u", "n", "t">>
w_TickSize == <<"T", "i", "c", "k", "S", "i", "z", "e">>
w_TransferRate == <<"T", "r", "a", "n", "s", "f", "e", "r", "R", "a", "t", "e">>

\* u64 values: every limb 0, 1, 9, 10 or the largest.
U64Samples == [1..4 -> {0, 1, 9, 10, LimbBase - 1}]

Scalars ==
    {JNull, JBool(TRUE), JBool(FALSE), JNum(FALSE, U64(100)), JNum(FALSE, U64(0)),
     JNum(TRUE, U64(1)), JNum(FALSE, U64Max), JFloat(<<"1", ".", "5">>)}

ArrayElements == {JStr(t_10), JStr(t_USD), JNum(FALSE, U64(1)), JNull}

Arrays == UNION {{JArr(a) : a \in [1..n -> ArrayElements]} : n \in 0..MaxArr}

\* Objects over the keys of an issued amount and one more, each key absent
\* or holding a string, a number or null.
AmountObjects ==
    LET keys == {f_value, f_currency, f_issuer, n_Extra}
        vals == {JStr(t_10), JStr(t_abc), JNum(FALSE, U64(1)), JNull}
    IN  UNION {{JObj(o) : o \in [S -> vals]} : S \in SUBSET keys}

DropsWires == {JStr(s) : s \in Texts \cup BoundaryTexts} \cup Scalars \cup Arrays

AmountWires == DropsWires \cup AmountObjects

IssuedWire == JObj((f_value :> JStr(t_10)) @@ (f_currency :> JStr(t_USD))
                   @@ (f_issuer :> JStr(t_rX)))

BalanceWires ==
    {JStr(t_500), JStr(t_abc), JStr(<<>>), IssuedWire, JNum(FALSE, U64(500)),
     JArr(<<JStr(t_10), JStr(t_USD), JStr(t_rX)>>)}

\* The seven required fields of an AccountRoot object, with balance b.
RequiredWire(b) ==
    (w_Account :> JStr(t_rX)) @@ (w_Balance :> b)
    @@ (w_Flags :> JNum(FALSE, U64(0))) @@ (w_OwnerCount :> JNum(FALSE, U64(0)))
    @@ (w_PreviousTxnID :> JStr(t_ABCD))
    @@ (w_PreviousTxnLgrSeq :> JNum(FALSE, U64(1)))
    @@ (w_Sequence :> JNum(FALSE, U64(1)))

RequiredKeys ==
    {w_Account, w_Balance, w_Flags, w_OwnerCount, w_PreviousTxnID,
     w_PreviousTxnLgrSeq, w_Sequence}

StringOptionalKeys ==
    {w_AccountTxnID, n_AccountTxnId, w_Domain, w_EmailHash, w_MessageKey, w_RegularKey}

NumberOptionalKeys == {w_TicketCount, w_TickSize, w_TransferRate}

\* What an optional key may hold on the wire: a value of its type, null,
\* and for a string also the empty string.
OptionalChoices(key) ==
    IF key \in StringOptionalKeys
    THEN {JStr(t_ABCD), JStr(<<>>), JNull}
    ELSE {JNum(FALSE, U64(5)), JNull}

OptionalWires ==
    LET all == UNION {OptionalChoices(key) :
                        key \in StringOptionalKeys \cup NumberOptionalKeys}
    IN  UNION {{o \in [S -> all] : \A key \in S : o[key] \in OptionalChoices(key)} :
                 S \in {X \in SUBSET (StringOptionalKeys \cup NumberOptionalKeys) :
                          Cardinality(X) <= MaxOptional}}

CheckWire ==
    (w_Account :> JStr(t_rX)) @@ (w_Destination :> JStr(t_rX))
    @@ (w_Flags :> JNum(FALSE, U64(0)))

\* What the LedgerEntryType key may hold.
TagWires ==
    {JStr(n_AccountRoot), JStr(n_Check), JStr(n_Unknown), JStr(n_SomeFutureType),
     JNum(FALSE, U64(0))}

\* With tag absent the object is o, else o with the discriminant tag.
Tagged(tag, o) == IF tag = JNull THEN o ELSE (n_LedgerEntryType :> tag) @@ o

\* Ledger objects: every discriminant (or none) on an AccountRoot body with
\* every balance and at most one required key dropped, on a Check body and
\* on an empty one; AccountRoot objects with optional keys; and values
\* that are no object.
LedgerWires ==
    {JObj(Tagged(tag, Without(RequiredWire(b), drop))) :
        tag \in TagWires \cup {JNull},
        b \in BalanceWires,
        drop \in RequiredKeys \cup {n_Extra}}
    \cup {JObj(Tagged(tag, o)) :
            tag \in TagWires \cup {JNull},
            o \in {CheckWire, Without(CheckWire, w_Destination), EmptyObject}}
    \cup {JObj(Tagged(JStr(n_AccountRoot), RequiredWire(b) @@ o)) :
            b \in {JStr(t_500), IssuedWire}, o \in OptionalWires}
    \cup Scalars
    \cup {JStr(n_AccountRoot), JArr(<<>>), JArr(<<JStr(n_Unknown)>>),
          JArr(<<JStr(n_Check), JStr(t_rX), JStr(t_rX), JNum(FALSE, U64(0))>>)}

\* The payload types Response<T> is decoded with, by name.
PayloadTypes ==
    {"AccountRoot", "LedgerEntry", "TransactionEntryResponse", "LedgerInfo",
     "PaginationInfo"}

\* The type a name stands for: <<"Drops">>, <<"Response", "LedgerInfo">>.
TypeNamed(name) ==
    LET plain(n) ==
            CASE n = "Drops" -> Drops
              [] n = "CurrencyAmount" -> CurrencyAmount
              [] n = "LedgerEntry" -> LedgerEntry
              [] n = "AccountRoot" -> AccountRoot
              [] n = "TransactionEntryResponse" -> TransactionEntryResponse
              [] n = "LedgerInfo" -> LedgerInfo
              [] n = "PaginationInfo" -> PaginationInfo
    IN  IF name[1] = "Response" THEN Response(plain(name[2])) ELSE plain(name[1])

ErrorWire == JObj(f_error :> JStr(t_actNotFound))

\* What the result key of an envelope may hold.
ResultWires ==
    {ErrorWire, JObj(EmptyObject), JStr(t_abc), JArr(<<>>),
     JArr(<<JNull, JNull>>),
     JObj(f_ledger_index :> JNum(FALSE, U64(5))),
     JObj(f_ledger_index :> JStr(t_abc)),
     JObj(f_limit :> JNum(TRUE, U64(1)))}
    \cup Scalars
    \cup {JObj(Tagged(tag, Without(RequiredWire(b), drop))) :
            tag \in {JStr(n_AccountRoot), JNull},
            b \in {JStr(t_500), JStr(t_abc), IssuedWire},
            drop \in {w_Sequence, n_Extra}}

\* What the id key of an envelope may hold.
IdWires ==
    {JNum(FALSE, U64(1)), JNum(FALSE, U64Max), JNum(TRUE, U64(1)), JStr(t_abc),
     JStr(n_Number), JNull, JBool(TRUE),
     JObj(n_Number :> JNum(FALSE, U64(1))), JObj(n_String :> JStr(t_abc)),
     JObj((n_Number :> JNum(FALSE, U64(1))) @@ (n_String :> JStr(t_abc)))}

\* The metadata of an envelope other than id: absent, well typed, or
\* one key of the wrong type.
MetaWires ==
    {EmptyObject,
     (f_status :> JStr(t_success)) @@ (f_type :> JStr(t_abc))
        @@ (f_warning :> JStr(t_abc)) @@ (f_warnings :> JArr(<<JNull, JStr(t_abc)>>))
        @@ (f_forwarded :> JBool(FALSE)),
     (f_status :> JNull) @@ (f_forwarded :> JNull),
     (f_status :> JNum(FALSE, U64(1))),
     (f_warnings :> JStr(t_abc)),
     (n_Extra :> JNum(FALSE, U64(1)))}

Absent == [k |-> "absent"]

\* o with key holding j, or o itself when j is Absent.
With(o, key, j) == IF j = Absent THEN o ELSE (key :> j) @@ o

ResponseWires ==
    {JObj(With(With(meta, f_id, id), f_result, res)) :
        meta \in MetaWires,
        id \in IdWires \cup {Absent},
        res \in ResultWires \cup {Absent}}
    \cup Scalars

\* In-process values handed to the encoders.
IssuedValue(v) == (f_value :> v) @@ (f_currency :> t_USD) @@ (f_issuer :> t_rX)

AmountValues ==
    {Newtype(n_XRP, DropsOf(n)) : n \in U64Samples}
    \cup {Newtype(n_IssuedCurrency, IssuedValue(v)) : v \in {t_10, t_abc, <<>>}}

AccountRootValues ==
    {(f_account :> t_rX) @@ (f_balance :> b) @@ (f_flags :> fl)
     @@ (f_owner_count :> U64(0)) @@ (f_previous_txn_id :> t_ABCD)
     @@ (f_previous_txn_lgr_seq :> U64(1)) @@ (f_sequence :> U64(1))
     @@ (f_account_txn_id :> o[1]) @@ (f_domain :> dom) @@ (f_email_hash :> o[2])
     @@ (f_message_key :> o[3]) @@ (f_regular_key :> o[4])
     @@ (f_ticket_count :> n[1]) @@ (f_tick_size :> n[2])
     @@ (f_transfer_rate :> n[3]) :
        b \in {Newtype(n_XRP, DropsOf(U64(500))), Newtype(n_XRP, DropsOf(U64Max)),
               Newtype(n_IssuedCurrency, IssuedValue(t_10))},
        fl \in {U64(0), <<LimbBase - 1, LimbBase - 1, 0, 0>>},
        dom \in {None, Some(<<>>), Some(t_ABCD)},
        o \in [1..4 -> {None, Some(t_ABCD)}],
        n \in [1..3 -> {None, Some(U64(5))}]}

CheckValues ==
    {(f_account :> t_rX) @@ (f_destination :> d) @@ (f_flags :> U64(0)) :
        d \in {t_rX, <<>>}}

LedgerValues ==
    {Newtype(n_AccountRoot, a) : a \in AccountRootValues}
    \cup {Newtype(n_Check, c) : c \in CheckValues}
    \cup {Unit(n_Unknown)}

-----------------------------------------------------------------------------
(* The caller: one encode or decode at a time.                             *)

NoType == <<>>
Nothing == [k |-> "nothing"]

Init ==
    /\ call = "idle"
    /\ ty = NoType
    /\ value = Nothing
    /\ wire = Nothing
    /\ result = Nothing

\* A decode of the JSON value j as the type named T.
Decode(T, j) ==
    /\ call' = "decode"
    /\ ty' = T
    /\ value' = Nothing
    /\ wire' = j
    /\ result' = Deserialize(TypeNamed(T), j)

\* An encode of the value v of the type named T.
Encode(T, v) ==
    /\ call' = "encode"
    /\ ty' = T
    /\ value' = v
    /\ wire' = Serialize(TypeNamed(T), v)
    /\ result' = Nothing

DecodeDrops ==
    /\ call = "idle"
    /\ \E j \in DropsWires : Decode(<<"Drops">>, j)

EncodeDrops ==
    /\ call = "idle"
    /\ \E n \in U64Samples : Encode(<<"Drops">>, DropsOf(n))

DecodeCurrencyAmount ==
    /\ call = "idle"
    /\ \E j \in AmountWires : Decode(<<"CurrencyAmount">>, j)

EncodeCurrencyAmount ==
    /\ call = "idle"
    /\ \E v \in AmountValues : Encode(<<"CurrencyAmount">>, v)

DecodeLedgerEntry ==
    /\ call = "idle"
    /\ \E j \in LedgerWires : Decode(<<"LedgerEntry">>, j)

EncodeLedgerEntry ==
    /\ call = "idle"
    /\ \E v \in LedgerValues : Encode(<<"LedgerEntry">>, v)

DecodeResponse ==
    /\ call = "idle"
    /\ \E T \in PayloadTypes : \E j \in ResponseWires : Decode(<<"Response", T>>, j)

\* The value just encoded is decoded again, as its own type.
DecodeEncoded ==
    /\ call = "encode"
    /\ call' = "roundtrip"
    /\ result' = Deserialize(TypeNamed(ty), wire)
    /\ UNCHANGED <<ty, value, wire>>

\* The call returns and the caller may make the next.
Return ==
    /\ call \in {"encode", "decode", "roundtrip"}
    /\ call' = "idle"
    /\ ty' = NoType
    /\ value' = Nothing
    /\ wire' = Nothing
    /\ result' = Nothing

Next ==
    \/ DecodeDrops
    \/ EncodeDrops
    \/ DecodeCurrencyAmount
    \/ EncodeCurrencyAmount
    \/ DecodeLedgerEntry
    \/ EncodeLedgerEntry
    \/ DecodeResponse
    \/ DecodeEncoded
    \/ Return

Spec == Init /\ [][Next]_vars

-----------------------------------------------------------------------------
(* Vocabulary of the properties.                                           *)

Decoding(T) == call = "decode" /\ ty = T

DecodingResponse == call = "decode" /\ Len(ty) = 2 /\ wire.k = "obj"

\* The largest unsigned 64-bit value, 2^64 - 1, in decimal.
U64MaxText ==
    <<"1", "8", "4", "4", "6", "7", "4", "4", "0", "7",
      "3", "7", "0", "9", "5", "5", "1", "6", "1", "5">>

RECURSIVE StripZeros(_)
StripZeros(s) ==
    IF Len(s) > 1 /\ s[1] = "0" THEN StripZeros(Tail(s)) ELSE s

\* s and m are digit texts of one length and s is at most m.
DigitsLeq(s, m) ==
    \/ s = m
    \/ \E i \in DOMAIN s :
          /\ \A x \in 1..(i - 1) : s[x] = m[x]
          /\ to_digit(s[i]) < to_digit(m[i])

\* A text of decimal digits, at least one, whose value fits 64 bits.
IsDecimalU64(s) ==
    /\ s # <<>>
    /\ \A i \in DOMAIN s : IsDigit(s[i])
    /\ LET t == StripZeros(s)
       IN  \/ Len(t) < Len(U64MaxText)
           \/ Len(t) = Len(U64MaxText) /\ DigitsLeq(t, U64MaxText)

\* An object holding value, currency and issuer, each a string.
AllThreeStrings(o) ==
    \A key \in {f_value, f_currency, f_issuer} : key \in DOMAIN o /\ o[key].k = "str"

\* The metadata keys of an envelope other than id are absent, null or of
\* their type.
PlainMetaOk(o) ==
    /\ \A key \in {f_status, f_type, f_warning} :
          key \in DOMAIN o => o[key].k \in {"null", "str"}
    /\ f_warnings \in DOMAIN o => o[f_warnings].k \in {"null", "arr"}
    /\ f_forwarded \in DOMAIN o => o[f_forwarded].k \in {"null", "bool"}

\* The id key is absent, null or decodes as a RequestId.
IdOk(o) ==
    f_id \in DOMAIN o => o[f_id].k = "null" \/ Deserialize(RequestId, o[f_id]).ok

-----------------------------------------------------------------------------
(* C1: decoding a ledger object whose LedgerEntryType is missing, or is    *)
(* anything but "AccountRoot" or "Check", succeeds as Unknown.             *)
C1_UnknownFallback ==
    (/\ Decoding(<<"LedgerEntry">>)
     /\ wire.k = "obj"
     /\ \/ n_LedgerEntryType \notin DOMAIN wire.o
        \/ wire.o[n_LedgerEntryType] \notin {JStr(n_AccountRoot), JStr(n_Check)})
    => result = Ok(Unit(n_Unknown))

(* C2: for every payload type, an envelope whose result is the error       *)
(* object {"error": "actNotFound"} decodes with the Error arm, never Ok.   *)
C2_ErrorObjectIsErrorArm ==
    (/\ DecodingResponse
     /\ f_result \in DOMAIN wire.o
     /\ wire.o[f_result] = ErrorWire
     /\ result.ok)
    => VariantOf(result.v[f_result]) = n_Error

(* C3: an envelope for AccountRoot or LedgerEntry whose payload is an      *)
(* AccountRoot object with a malformed Balance string, or lacking a        *)
(* required key, does not decode as an envelope holding a server error.    *)
C3_CodecFailurePropagates ==
    (/\ DecodingResponse
     /\ ty[2] \in {"AccountRoot", "LedgerEntry"}
     /\ f_result \in DOMAIN wire.o
     /\ wire.o[f_result].k = "obj"
     /\ LET p == wire.o[f_result].o
        IN  /\ ty[2] = "LedgerEntry" =>
                  /\ n_LedgerEntryType \in DOMAIN p
                  /\ p[n_LedgerEntryType] = JStr(n_AccountRoot)
            /\ \/ /\ RequiredKeys \subseteq DOMAIN p
                  /\ p[w_Balance].k = "str"
                  /\ ~IsDecimalU64(p[w_Balance].s)
               \/ /\ w_Account \in DOMAIN p
                  /\ ~(RequiredKeys \subseteq DOMAIN p))
    => ~(result.ok /\ VariantOf(result.v[f_result]) = n_Error)

(* C4: a CurrencyAmount decodes by shape, native first: a valid Drops      *)
(* string is the native variant with that value, a string that fails the   *)
(* Drops decode fails the whole decode, and an object whose value,         *)
(* currency and issuer are strings is the issued variant with them.        *)
C4_NativeFirstDispatch ==
    Decoding(<<"CurrencyAmount">>) =>
        /\ (wire.k = "str" /\ IsDecimalU64(wire.s)) =>
              /\ result.ok
              /\ VariantOf(result.v) = n_XRP
              /\ format(Payload(result.v).drops) = StripZeros(wire.s)
        /\ (wire.k = "str" /\ ~DropsDeserialize(wire).ok) => ~result.ok
        /\ wire.k = "str" /\ result.ok => VariantOf(result.v) = n_XRP
        /\ (wire.k = "obj" /\ AllThreeStrings(wire.o)) =>
              /\ result.ok
              /\ VariantOf(result.v) = n_IssuedCurrency
              /\ \A key \in {f_value, f_currency, f_issuer} :
                    Payload(result.v)[key] = wire.o[key].s

\* An issued amount decoded from an object whose value is no number.
C4_Witness ==
    /\ Decoding(<<"CurrencyAmount">>)
    /\ wire.k = "obj"
    /\ AllThreeStrings(wire.o)
    /\ wire.o[f_value] = JStr(t_abc)
    /\ result.ok
    /\ VariantOf(result.v) = n_IssuedCurrency

(* C5: a CurrencyAmount decode fails for every JSON value that is neither  *)
(* a string nor an object, arrays included, and for every object lacking   *)
(* value, currency or issuer as a string; the issued variant comes only    *)
(* from an object with all three.                                          *)
C5_OtherShapesFail ==
    Decoding(<<"CurrencyAmount">>) =>
        /\ wire.k \notin {"str", "obj"} => ~result.ok
        /\ (wire.k = "obj" /\ ~AllThreeStrings(wire.o)) => ~result.ok
        /\ (result.ok /\ VariantOf(result.v) = n_IssuedCurrency) =>
              wire.k = "obj" /\ AllThreeStrings(wire.o)

(* C6: a Drops decode succeeds exactly on a JSON string of decimal digits  *)
(* whose value fits 64 bits, and yields that value; numbers, empty,        *)
(* signed, fractional, non-numeric and too large texts fail.               *)
C6_DropsDecodeStrict ==
    Decoding(<<"Drops">>) =>
        /\ result.ok <=> (wire.k = "str" /\ IsDecimalU64(wire.s))
        /\ result.ok => format(result.v.drops) = StripZeros(wire.s)

(* C7: decoding what was encoded gives the value back, for every Drops,    *)
(* every CurrencyAmount and every LedgerEntry but Unknown; an encoded      *)
(* Drops is a JSON string of digits with no leading zero but for "0".      *)
C7_RoundTrip ==
    /\ (call = "roundtrip" /\ ty \in {<<"Drops">>, <<"CurrencyAmount">>}) =>
          result = Ok(value)
    /\ (call = "roundtrip" /\ ty = <<"LedgerEntry">> /\ VariantOf(value) # n_Unknown) =>
          result = Ok(value)
    /\ (call \in {"encode", "roundtrip"} /\ ty = <<"Drops">>) =>
          /\ wire.k = "str"
          /\ wire.s # <<>>
          /\ \A i \in DOMAIN wire.s : IsDigit(wire.s[i])
          /\ wire.s = StripZeros(wire.s)

\* An AccountRoot with an empty domain and no email hash, round-tripped.
C7_Witness ==
    /\ call = "roundtrip"
    /\ ty = <<"LedgerEntry">>
    /\ VariantOf(value) = n_AccountRoot
    /\ Payload(value)[f_domain] = Some(<<>>)
    /\ Payload(value)[f_email_hash] = None
    /\ Payload(value)[f_ticket_count] = Some(U64(5))
    /\ VariantOf(Payload(value)[f_balance]) = n_IssuedCurrency
    /\ result = Ok(value)

\* The optional fields of AccountRoot that hold strings and those that hold
\* numbers, each with the wire name documented for it.
DocumentedStrings ==
    {<<f_account_txn_id, w_AccountTxnID>>, <<f_domain, w_Domain>>,
     <<f_email_hash, w_EmailHash>>, <<f_message_key, w_MessageKey>>,
     <<f_regular_key, w_RegularKey>>}

DocumentedNumbers ==
    {<<f_ticket_count, w_TicketCount>>, <<f_tick_size, w_TickSize>>,
     <<f_transfer_rate, w_TransferRate>>}

(* C8: an AccountRoot is decoded field by field from the documented wire   *)
(* names: a value under a name is in the field of that name, an optional   *)
(* key that is missing is an absent field, and the object of the seven     *)
(* required keys with Balance "500" decodes with a native balance of 500   *)
(* and every optional field absent.                                        *)
C8_DocumentedWireNames ==
    /\ (/\ Decoding(<<"LedgerEntry">>)
        /\ wire.k = "obj"
        /\ result.ok
        /\ VariantOf(result.v) = n_AccountRoot) =>
          LET a == Payload(result.v)
              o == wire.o
          IN  /\ RequiredKeys \subseteq DOMAIN o
              /\ a[f_account] = o[w_Account].s
              /\ a[f_flags] = o[w_Flags].mag
              /\ a[f_owner_count] = o[w_OwnerCount].mag
              /\ a[f_previous_txn_id] = o[w_PreviousTxnID].s
              /\ a[f_previous_txn_lgr_seq] = o[w_PreviousTxnLgrSeq].mag
              /\ a[f_sequence] = o[w_Sequence].mag
              /\ o[w_Balance] = JStr(t_500) =>
                    a[f_balance] = Newtype(n_XRP, DropsOf(U64(500)))
              /\ \A d \in DocumentedStrings :
                    /\ (d[2] \in DOMAIN o /\ o[d[2]].k = "str") =>
                          a[d[1]] = Some(o[d[2]].s)
                    /\ d[2] \notin DOMAIN o => a[d[1]] = None
              /\ \A d \in DocumentedNumbers :
                    /\ (d[2] \in DOMAIN o /\ o[d[2]].k = "num") =>
                          a[d[1]] = Some(o[d[2]].mag)
                    /\ d[2] \notin DOMAIN o => a[d[1]] = None
    /\ (/\ Decoding(<<"LedgerEntry">>)
        /\ wire = JObj(Tagged(JStr(n_AccountRoot), RequiredWire(JStr(t_500))))) =>
          /\ result.ok
          /\ VariantOf(result.v) = n_AccountRoot

(* C9: an envelope decodes its id permissively: a non-negative integer n   *)
(* as RequestId::Number(n), a string s as RequestId::String(s), a missing  *)
(* id as absent; the decode does not fail on account of such an id.        *)
C9_IdPermissive ==
    (/\ DecodingResponse
     /\ f_result \in DOMAIN wire.o
     /\ PlainMetaOk(wire.o)) =>
        LET o == wire.o
        IN  /\ f_id \notin DOMAIN o =>
                  result.ok /\ result.v[f_id] = None
            /\ (f_id \in DOMAIN o /\ o[f_id].k = "num" /\ ~o[f_id].neg) =>
                  result.ok /\ result.v[f_id] = Some(Newtype(n_Number, o[f_id].mag))
            /\ (f_id \in DOMAIN o /\ o[f_id].k = "str") =>
                  result.ok /\ result.v[f_id] = Some(Newtype(n_String, o[f_id].s))

(* C10: an envelope decodes result in two ordered steps: a value that      *)
(* decodes as T is the Ok arm holding it, any other JSON value is the      *)
(* Error arm holding that value unchanged, and the envelope decodes;       *)
(* with its other keys well formed the envelope fails exactly when the     *)
(* result key is absent.                                                   *)
C10_ResultOrderedAttempt ==
    DecodingResponse =>
        LET o == wire.o
            T == TypeNamed(<<ty[2]>>)
        IN  /\ f_result \notin DOMAIN o => ~result.ok
            /\ (f_result \in DOMAIN o /\ PlainMetaOk(o) /\ IdOk(o)) => result.ok
            /\ result.ok =>
                  LET r == Deserialize(T, o[f_result])
                  IN  result.v[f_result] =
                          IF r.ok
                          THEN Newtype(n_Ok, r.v)
                          ELSE Newtype(n_Error, o[f_result])

\* An envelope for AccountRoot decoded with a JSON string kept, unchanged,
\* in the Error arm.
C10_Witness ==
    /\ Decoding(<<"Response", "AccountRoot">>)
    /\ wire.k = "obj"
    /\ f_result \in DOMAIN wire.o
    /\ wire.o[f_result] = JStr(t_abc)
    /\ result.ok
    /\ result.v[f_result] = Newtype(n_Error, JStr(t_abc))

=============================================================================
